---- MODULE Spec2Model ----
(***************************************************************************)
(* Model of backend/main.py (Aegis AI backend): the process-wide state of  *)
(* the retrieval pipeline (vector_store, conversation_chain), the files it *)
(* persists (document store, saved index), the startup sequence            *)
(* (check_and_create_db, initialize_ai_components) and the request         *)
(* handlers (upload_document, handle_query, generate_pdf_binary,           *)
(* send_email).                                                            *)
(*                                                                         *)
(* Scheduling: every handler is an `async def` run on the single event     *)
(* loop of the server process.  A handler runs without interleaving from   *)
(* one `await` to the next.  upload_document has one await (file.read(),   *)
(* line 141) and is therefore two atomic segments, UploadBegin and         *)
(* UploadResume; handle_query has none and is one segment.                 *)
(*                                                                         *)
(* Library and external calls (PyPDFLoader, FAISS, OpenAI, the chain) may  *)
(* raise; each action draws the outcome of its calls from a small set.     *)
(***************************************************************************)
EXTENDS Integers, Sequences, FiniteSets, TLC

(* ------------------------------ bounds --------------------------------- *)

\* Longest conversation memory explored (turns in ConversationBufferMemory).
MaxTurns == 2

\* Most upload requests suspended at `await file.read()` at one time.
MaxInflight == 2

(* ------------------------- program constants --------------------------- *)

\* retries = 5 in check_and_create_db.
Retries == 5

\* vector_store = None: the reference to no index object.
NoObj == 0

(* ----------------------------- input sets ------------------------------ *)

\* File names an upload may carry (file.filename).
Names == {"report.pdf"}

\* Uploaded files, each the sequence of its blocks of bytes (one block holds
\* one page of text, which the splitter turns into one chunk).
Docs == {<<"a">>, <<"b">>}

Blocks == {"a", "b"}

\* An index entry is identified by its chunk; the copies a repeated upload
\* of the same text adds are not told apart.
Chunks == Blocks

Questions == {"q1", "q2"}

Answers == {"a1"}

\* Identities of the in-memory FAISS objects.  At most two are referenced after
\* a handler segment (vector_store and the chain's retriever); a third is
\* needed while initialize_ai_components loads a new one.
ObjIds == {1, 2, 3}

VARIABLES
    phase,              \* "down" | "db" | "ai" | "up": where the process is
    retries,            \* check_and_create_db's local counter
    attempts,           \* iterations of its loop begun in this startup (history)
    connected,          \* an iteration connected and then raised OperationalError (history)
    persisted,          \* the index saved at VECTOR_STORE_PATH
    documents,          \* the files under DOCUMENTS_DIR
    heap,               \* entries of each in-memory FAISS object
    vector_store,       \* global vector_store: an object id or NoObj
    conversation_chain, \* global conversation_chain
    pending,            \* upload requests suspended at await file.read()
    loaded,             \* this process loaded a persisted index at startup (history)
    ingested,           \* chunks added by uploads that returned success in this process (history)
    peerOk,             \* some request is suspended, and every suspended request was
                        \* already in flight when an upload returned success (history)
    last                \* the step that produced this state and its outcome (history)

vars == <<phase, retries, attempts, connected, persisted, documents, heap,
          vector_store, conversation_chain, pending, loaded, ingested,
          peerOk, last>>

(* ------------------------------ helpers -------------------------------- *)

ToSet(s) == {s[i] : i \in 1..Len(s)}

Min(S) == CHOOSE x \in S : \A y \in S : x <= y

\* conversation_chain = None.
NoChain == [present |-> FALSE, retriever |-> NoObj, memory |-> <<>>]

\* No file at VECTOR_STORE_PATH.
NoIndex == [exists |-> FALSE, entries |-> {}]

NoFile == [exists |-> FALSE, bytes |-> <<>>]

\* The suspended upload requests are a bag: a function from requests
\* [name, doc] to how many of them are suspended.
NoRequests == <<>>

Requests == [name : Names, doc : Docs]

CountOf(b, r) == IF r \in DOMAIN b THEN b[r] ELSE 0

RECURSIVE SumOver(_, _)
SumOver(b, D) ==
    IF D = {} THEN 0
    ELSE LET r == CHOOSE x \in D : TRUE IN b[r] + SumOver(b, D \ {r})

BagSize(b) == SumOver(b, DOMAIN b)

BagAdd(b, r) ==
    [x \in DOMAIN b \cup {r} |-> CountOf(b, x) + (IF x = r THEN 1 ELSE 0)]

BagRemove(b, r) ==
    [x \in {y \in DOMAIN b : y # r \/ b[y] > 1} |-> b[x] - (IF x = r THEN 1 ELSE 0)]

EmptyHeap == [o \in ObjIds |-> {}]

\* The record every action leaves in `last`.
Outcome(op, status, steps) ==
    [op |-> op, status |-> status, steps |-> steps,
     question |-> "", answer |-> "", context |-> <<>>, seen |-> {},
     pairOk |-> FALSE]

\* An object id no global refers to: the identity of a newly created object.
NewObj(vs, chain) == Min(ObjIds \ {vs, chain.retriever})

\* Objects no global refers to are garbage.  The identities of the others are
\* renamed (the program cannot observe them): vector_store's object is 1, a
\* different object behind the chain's retriever is 2.
Collect(m) ==
    LET vs == m.vector_store
        rt == m.chain.retriever
        stale == m.chain.present /\ rt # vs
    IN  [heap |-> [o \in ObjIds |->
                     IF o = 1 /\ vs # NoObj THEN m.heap[vs]
                     ELSE IF o = 2 /\ stale THEN m.heap[rt]
                     ELSE {}],
         vector_store |-> IF vs # NoObj THEN 1 ELSE NoObj,
         chain |-> IF ~m.chain.present THEN m.chain
                   ELSE [m.chain EXCEPT !.retriever = IF stale THEN 2 ELSE 1]]

(* ------------------------------- Init ---------------------------------- *)

Init ==
    /\ phase = "down"
    /\ retries = Retries
    /\ attempts = 0
    /\ connected = FALSE
    /\ persisted = NoIndex
    /\ documents = [n \in Names |-> NoFile]
    /\ heap = EmptyHeap
    /\ vector_store = NoObj
    /\ conversation_chain = NoChain
    /\ pending = NoRequests
    /\ loaded = FALSE
    /\ ingested = {}
    /\ peerOk = FALSE
    /\ last = Outcome("none", 0, <<>>)

memoryVars == <<heap, vector_store, conversation_chain>>
diskVars == <<persisted, documents>>
dbVars == <<retries, attempts, connected>>
histVars == <<loaded, ingested, peerOk>>

(* ------------------------------ startup -------------------------------- *)

\* The server process starts: module globals are None (lines 94-95) and
\* on_startup calls check_and_create_db, which sets retries = 5.
Start ==
    /\ phase = "down"
    /\ phase' = "db"
    /\ retries' = Retries
    /\ attempts' = 0
    /\ connected' = FALSE
    /\ heap' = EmptyHeap
    /\ vector_store' = NoObj
    /\ conversation_chain' = NoChain
    /\ pending' = NoRequests
    /\ loaded' = FALSE
    /\ ingested' = {}
    /\ peerOk' = FALSE
    /\ last' = Outcome("start", 0, <<>>)
    /\ UNCHANGED diskVars

\* What one iteration of check_and_create_db's loop can do:
\*   "ok"            connect, check, create if missing: break
\*   "connect_operr" create_engine/connect raises OperationalError
\*   "exec_operr"    connected, then a statement raises OperationalError
\*   "other"         any other exception: not caught, leaves the function
DbOutcomes == {"ok", "connect_operr", "exec_operr", "other"}

\* DbAttempt with `retries -= 1` forgotten: the loop never gives up.
DbAttemptKeepsRetries(outcome) ==
    /\ phase = "db"
    /\ retries > 0
    /\ attempts' = attempts + 1
    /\ connected' = (connected \/ outcome = "exec_operr")
    /\ retries' = retries
    /\ IF outcome = "ok"
          THEN /\ phase' = "ai"
               /\ last' = Outcome("db", 200, <<"connect">>)
          ELSE IF outcome = "other"
          THEN /\ phase' = "down"
               /\ last' = Outcome("startup_failed", 500, <<"connect">>)
          ELSE /\ phase' = "db"
               /\ last' = Outcome("db", 500, <<"connect">>)
    /\ UNCHANGED <<diskVars, memoryVars, pending, histVars>>

\* The body of `while retries > 0` once.
DbAttempt(outcome) ==
    /\ phase = "db"
    /\ retries > 0
    /\ attempts' = attempts + 1
    /\ connected' = (connected \/ outcome = "exec_operr")
    /\ CASE outcome = "ok" ->
              /\ phase' = "ai"
              /\ retries' = retries
              /\ last' = Outcome("db", 200, <<"connect">>)
         [] outcome \in {"connect_operr", "exec_operr"} ->
              /\ retries' = retries - 1
              /\ IF retries' = 0
                    THEN /\ phase' = "down"
                         /\ last' = Outcome("startup_failed", 500, <<"connect">>)
                    ELSE /\ phase' = "db"
                         /\ last' = Outcome("db", 500, <<"connect">>)
         [] OTHER ->
              /\ phase' = "down"
              /\ retries' = retries
              /\ last' = Outcome("startup_failed", 500, <<"connect">>)
    /\ UNCHANGED <<diskVars, memoryVars, pending, histVars>>

(* ---------------------- initialize_ai_components ----------------------- *)

\* What the calls inside initialize_ai_components' try block can do:
\*   "ok"           all return
\*   "load_raises"  OpenAIEmbeddings() or FAISS.load_local raises
\*   "chain_raises" the index is loaded, then ChatOpenAI, the memory or
\*                  ConversationalRetrievalChain.from_llm raises
InitOutcomes == {"ok", "load_raises", "chain_raises"}

\* FAISS.load_local followed by `vector_store = ...` (line 104): a new object
\* holding the saved entries becomes the global index.
LoadLocal(m, disk) ==
    LET o == NewObj(m.vector_store, m.chain)
    IN  [m EXCEPT !.heap = [m.heap EXCEPT ![o] = disk.entries],
                  !.vector_store = o]

\* Lines 110-116: a new chain with an empty ConversationBufferMemory whose
\* retriever is vector_store.as_retriever().
NewChain(vs) == [present |-> TRUE, retriever |-> vs, memory |-> <<>>]

\* InitializeAI dropping the chain when a call in its try block raises.
InitializeAIResetting(m, disk, outcome) ==
    IF ~disk.exists THEN m
    ELSE IF outcome = "load_raises" THEN [m EXCEPT !.chain = NoChain]
    ELSE LET l == LoadLocal(m, disk)
         IN  IF outcome = "chain_raises" THEN [l EXCEPT !.chain = NoChain]
             ELSE [l EXCEPT !.chain = NewChain(l.vector_store)]

\* initialize_ai_components on the globals m = [heap, vector_store, chain]
\* with the saved index `disk`.  An exception is printed and swallowed
\* (lines 119-120): whatever was assigned before it stays assigned.
InitializeAI(m, disk, outcome) ==
    IF ~disk.exists THEN m
    ELSE IF outcome = "load_raises" THEN m
    ELSE LET l == LoadLocal(m, disk)
         IN  IF outcome = "chain_raises" THEN l
             ELSE [l EXCEPT !.chain = NewChain(l.vector_store)]

Globals == [heap |-> heap, vector_store |-> vector_store, chain |-> conversation_chain]

\* Assign the globals, dropping the objects nothing refers to any more.
SetGlobals(m) ==
    LET c == Collect(m)
    IN  /\ vector_store' = c.vector_store
        /\ conversation_chain' = c.chain
        /\ heap' = c.heap

\* on_startup after check_and_create_db returned (its locals are gone):
\* initialize_ai_components, then the server accepts requests.
StartupInit(outcome) ==
    /\ phase = "ai"
    /\ LET m == InitializeAI(Globals, persisted, outcome)
       IN  /\ SetGlobals(m)
           /\ loaded' = (m.vector_store # NoObj)
    /\ phase' = "up"
    /\ retries' = Retries
    /\ attempts' = 0
    /\ connected' = FALSE
    /\ last' = Outcome("startup", 200, <<"init">>)
    /\ UNCHANGED <<diskVars, pending, ingested, peerOk>>

\* The process ends (killed, crashed or shut down): its memory and the
\* requests in flight are gone, the files stay.
Stop ==
    /\ phase = "up"
    /\ phase' = "down"
    /\ heap' = EmptyHeap
    /\ vector_store' = NoObj
    /\ conversation_chain' = NoChain
    /\ pending' = NoRequests
    /\ loaded' = FALSE
    /\ ingested' = {}
    /\ peerOk' = FALSE
    /\ last' = Outcome("stop", 0, <<>>)
    /\ UNCHANGED <<dbVars, diskVars>>

(* --------------------------- upload_document --------------------------- *)

\* Writing `new` at offset 0 through a handle of its own into a file that
\* holds `old`: the bytes of `old` past the end of `new` stay.
Overlay(old, new) == new \o SubSeq(old, Len(new) + 1, Len(old))

\* UploadBegin with the chunks added to the index before the await.
UploadBeginAdds(name, doc, opens) ==
    /\ phase = "up"
    /\ BagSize(pending) < MaxInflight
    /\ IF opens
          THEN /\ documents' = [documents EXCEPT
                                  ![name] = [exists |-> TRUE, bytes |-> <<>>]]
               /\ pending' = BagAdd(pending, [name |-> name, doc |-> doc])
               /\ peerOk' = FALSE
               /\ heap' = IF vector_store = NoObj THEN heap
                          ELSE [heap EXCEPT ![vector_store] = @ \cup ToSet(doc)]
               /\ last' = Outcome("upload_begin", 0, <<"open">>)
          ELSE /\ UNCHANGED <<documents, pending, peerOk, heap>>
               /\ last' = Outcome("upload", 500, <<"open">>)
    /\ UNCHANGED <<phase, dbVars, persisted, vector_store, conversation_chain,
                   loaded, ingested>>

\* Lines 138-141 up to the await: open(file_path, "wb") creates or truncates
\* the file, then the handler is suspended in `await file.read()`.
\* open may raise (line 154 turns that into a 500).
UploadBegin(name, doc, opens) ==
    /\ phase = "up"
    /\ BagSize(pending) < MaxInflight
    /\ IF opens
          THEN /\ documents' = [documents EXCEPT
                                  ![name] = [exists |-> TRUE, bytes |-> <<>>]]
               /\ pending' = BagAdd(pending, [name |-> name, doc |-> doc])
               /\ peerOk' = FALSE
               /\ last' = Outcome("upload_begin", 0, <<"open">>)
          ELSE /\ UNCHANGED <<documents, pending, peerOk>>
               /\ last' = Outcome("upload", 500, <<"open">>)
    /\ UNCHANGED <<phase, dbVars, persisted, memoryVars, loaded, ingested>>

\* The calls of upload_document after open, in order (lines 141-152):
\* buffer.write, loader.load, split_documents, OpenAIEmbeddings() with
\* add_documents or from_documents, save_local, initialize_ai_components.
UploadSteps == <<"open", "write", "extract", "split", "add", "save", "init">>

\* The call after the await that raises, or "none".
\* initialize_ai_components swallows its own exceptions and never raises.
FailPoints == {"none", "write", "extract", "split", "add", "save"}

StepNo(f) == CHOOSE i \in 1..Len(UploadSteps) : UploadSteps[i] = f

\* StepsRun with the raising call tried a second time before giving up.
StepsRunRetrying(failAt) ==
    IF failAt = "none" THEN UploadSteps
    ELSE Append(SubSeq(UploadSteps, 1, StepNo(failAt)), failAt)

\* The calls made when the call `failAt` raises: each once, up to it.
StepsRun(failAt) ==
    IF failAt = "none" THEN UploadSteps
    ELSE SubSeq(UploadSteps, 1, StepNo(failAt))

\* TRUE iff call `step` returned (was reached and did not raise).
Returned(step, failAt) == failAt = "none" \/ StepNo(step) < StepNo(failAt)

\* AddOrBuild that always takes the from_documents branch.
AlwaysBuild(m, chunks) ==
    LET o == NewObj(m.vector_store, m.chain)
    IN  [m EXCEPT !.heap[o] = chunks, !.vector_store = o]

\* Lines 147-150: add to the index object if there is one, else build one.
\* add_documents embeds first and then appends, so a raise leaves the
\* object as it was.
AddOrBuild(m, chunks) ==
    IF m.vector_store # NoObj
       THEN [m EXCEPT !.heap[m.vector_store] = @ \cup chunks]
       ELSE LET o == NewObj(m.vector_store, m.chain)
            IN  [m EXCEPT !.heap[o] = chunks, !.vector_store = o]

\* vector_store.save_local(VECTOR_STORE_PATH): the file holds the object's
\* entries.
SaveLocal(m) == [exists |-> TRUE, entries |-> m.heap[m.vector_store]]

\* Lines 141-155 after the await, as one segment of the event loop.
\* initOutcome is read only when line 152 is reached.
UploadResume(req, failAt, initOutcome) ==
    /\ phase = "up"
    /\ req \in DOMAIN pending
    /\ failAt # "none" => initOutcome = "ok"
    /\ LET file == IF Returned("write", failAt)
                      THEN [exists |-> TRUE,
                            bytes |-> Overlay(documents[req.name].bytes, req.doc)]
                      ELSE documents[req.name]
           chunks == IF Returned("split", failAt) THEN ToSet(file.bytes) ELSE {}
           m1 == IF Returned("add", failAt)
                    THEN AddOrBuild(Globals, chunks) ELSE Globals
           disk == IF Returned("save", failAt) THEN SaveLocal(m1) ELSE persisted
           m2 == IF Returned("save", failAt)
                    THEN InitializeAI(m1, disk, initOutcome) ELSE m1
           ok == failAt = "none"
           rest == BagRemove(pending, req)
       IN  /\ documents' = [documents EXCEPT ![req.name] = file]
           /\ persisted' = disk
           /\ SetGlobals(m2)
           /\ ingested' = IF ok THEN ingested \cup chunks ELSE ingested
           /\ pending' = rest
           /\ peerOk' = (rest # NoRequests /\ (ok \/ peerOk))
           /\ last' = [Outcome("upload", IF ok THEN 200 ELSE 500, StepsRun(failAt))
                         EXCEPT !.pairOk = ok /\ peerOk]
    /\ UNCHANGED <<phase, dbVars, loaded>>

(* ----------------------------- handle_query ---------------------------- *)

\* NotReady testing the index instead of the chain.
NotReadyByIndex == vector_store = NoObj

\* `if not conversation_chain` (line 161).
NotReady == ~conversation_chain.present

\* conversation_chain.invoke (line 164) returns an answer or raises.
InvokeOutcomes == Answers \cup {"raises"}

\* SaveContext putting the newest turn first.
SaveContextFirst(memory, question, answer) == <<<<question, answer>>>> \o memory

\* SaveContext storing the question and the answer as two turns.
SaveContextSplit(memory, question, answer) ==
    memory \o <<<<question, "">>, <<"", answer>>>>

\* ConversationBufferMemory.save_context: the turn goes to the end.
SaveContext(memory, question, answer) == Append(memory, <<question, answer>>)

\* handle_query: one segment, it has no await.  The question and the outcome
\* of invoke are read only when line 164 is reached and returns.
Query(question, outcome) ==
    /\ phase = "up"
    /\ (outcome = "raises" \/ ~conversation_chain.present) =>
          (question = (CHOOSE q \in Questions : TRUE) /\ outcome = "raises")
    /\ IF NotReady
          THEN /\ last' = Outcome("query", 400, <<>>)
               /\ UNCHANGED conversation_chain
          ELSE IF ~conversation_chain.present
          THEN \* None.invoke raises AttributeError inside the try: line 167
               /\ last' = Outcome("query", 500, <<>>)
               /\ UNCHANGED conversation_chain
          ELSE LET context == conversation_chain.memory
                   seen == heap[conversation_chain.retriever]
                   called == [Outcome("query", 500, <<"generate">>)
                                EXCEPT !.context = context, !.seen = seen]
               IN  IF outcome = "raises"
                      THEN /\ last' = called
                           /\ UNCHANGED conversation_chain
                      ELSE /\ Len(context) < MaxTurns
                           /\ conversation_chain' =
                                [conversation_chain EXCEPT
                                   !.memory = SaveContext(context, question, outcome)]
                           /\ last' = [called EXCEPT !.status = 200,
                                                     !.question = question,
                                                     !.answer = outcome]
    /\ UNCHANGED <<phase, dbVars, diskVars, heap, vector_store, pending, histVars>>

(* ------------------- generate_pdf_binary, send_email ------------------- *)

\* generate_pdf_binary: renders and returns, or 500; touches no global.
GeneratePdf(renders) ==
    /\ phase = "up"
    /\ last' = Outcome("pdf", IF renders THEN 200 ELSE 500, <<"render">>)
    /\ UNCHANGED <<phase, dbVars, diskVars, memoryVars, pending, histVars>>

\* send_email: sends and returns, or 500; touches no global.
SendEmail(sends) ==
    /\ phase = "up"
    /\ last' = Outcome("email", IF sends THEN 200 ELSE 500, <<"send">>)
    /\ UNCHANGED <<phase, dbVars, diskVars, memoryVars, pending, histVars>>

(* --------------------------- specification ----------------------------- *)

Next ==
    \/ Start
    \/ \E o \in DbOutcomes : DbAttempt(o)
    \/ \E o \in InitOutcomes : StartupInit(o)
    \/ Stop
    \/ \E n \in Names, d \in Docs, o \in BOOLEAN : UploadBegin(n, d, o)
    \/ \E r \in Requests, f \in FailPoints, i \in InitOutcomes : UploadResume(r, f, i)
    \/ \E q \in Questions, o \in InvokeOutcomes : Query(q, o)
    \/ \E o \in BOOLEAN : GeneratePdf(o)
    \/ \E o \in BOOLEAN : SendEmail(o)

Spec == Init /\ [][Next]_vars

(* ------------------------------ properties ----------------------------- *)

\* The entries a query retrieves from: those of the chain's retriever.
Serving == heap[conversation_chain.retriever]

\* No sequence holds an element twice.
NoRepeat(seq) == \A i, j \in 1..Len(seq) : seq[i] = seq[j] => i = j

\* C1: a query made while no index was loaded at startup and no upload has
\* returned success is answered 400 and makes no call to the chain.
C1_NotReadyBeforeIngestion ==
    (last.op = "query" /\ ~loaded /\ ingested = {}) =>
        (last.status = 400 /\ last.steps = <<>>)

\* C1's case: such a query was answered 400 although a failed upload had
\* already left an index object in vector_store.
C1_Witness ==
    /\ last.op = "query"
    /\ last.status = 400
    /\ ~loaded
    /\ ingested = {}
    /\ vector_store # NoObj

\* C2: after an upload that returned success the chain is present, newly
\* built (empty memory) and bound to the current index.
C2_ReadyAfterIngestion ==
    (last.op = "upload" /\ last.status = 200) =>
        /\ conversation_chain.present
        /\ conversation_chain.memory = <<>>
        /\ conversation_chain.retriever = vector_store

\* C3: startup ends Ready if a saved index is found, and with no index and no
\* chain if none is found.
C3_StartupLoadsPersisted ==
    last.op = "startup" =>
        IF persisted.exists
           THEN vector_store # NoObj /\ conversation_chain.present
           ELSE vector_store = NoObj /\ ~conversation_chain.present

\* C4: every chunk added by an upload that returned success in this process
\* is an entry of the index an answered query retrieved from.
C4_EarlierChunksServed ==
    (last.op = "query" /\ last.status = 200) => ingested \subseteq last.seen

\* C5: no step removes an entry from the saved index, or the saved index.
C5_PersistedAppendOnly ==
    [][persisted.exists =>
          (persisted'.exists /\ persisted.entries \subseteq persisted'.entries)]_vars

\* C6: an upload that ends 500 leaves the saved index as it was, and the
\* index queries retrieve from holds the saved entries.
C6_FailedIngestionLeavesSavedState ==
    [][(last'.op = "upload" /\ last'.status = 500) =>
          /\ persisted' = persisted
          /\ conversation_chain'.present => Serving' = persisted'.entries]_vars

\* C7: an answered query was given the memory as it stood as its context and
\* puts its (question, answer) turn at the end of it; a step that is neither
\* an answered query nor a start, stop or upload leaves the chain alone.
C7_TurnsAppendedInCallOrder ==
    [][/\ (last'.op = "query" /\ last'.status = 200) =>
            /\ last'.context = conversation_chain.memory
            /\ conversation_chain' =
                 [conversation_chain EXCEPT
                    !.memory = Append(@, <<last'.question, last'.answer>>)]
       /\ (/\ last'.op \in {"query", "pdf", "email", "upload_begin"}
           /\ last'.status # 200 \/ last'.op # "query") =>
            conversation_chain' = conversation_chain]_vars

\* C7's case: the second of two answered queries, asked a different question,
\* was given the first turn as context.
C7_Witness ==
    /\ last.op = "query"
    /\ last.status = 200
    /\ Len(last.context) = 1
    /\ last.context[1][1] # last.question
    /\ Len(conversation_chain.memory) = 2

C9_DbBootstrapBounded ==
    /\ [](/\ attempts <= Retries
          /\ phase = "db" => (retries > 0 /\ attempts = Retries - retries)
          /\ (last.op = "db" /\ last.status = 200) =>
               (phase = "ai" /\ attempts = Retries - retries + 1)
          /\ (retries = 0 \/ last.op = "startup_failed") =>
               /\ phase = "down"
               /\ vector_store = NoObj
               /\ ~conversation_chain.present)
    /\ [][/\ attempts' > attempts => (phase = "db" /\ retries > 0)
          /\ (phase' = "ai" /\ phase # "ai") =>
               (phase = "db" /\ last'.op = "db" /\ last'.status = 200)
          /\ last'.op = "startup" => phase = "ai"]_vars

\* C9's case: all Retries attempts failed with OperationalError, the startup
\* failed, and the index saved on disk was not loaded.
C9_Witness ==
    /\ last.op = "startup_failed"
    /\ attempts = Retries
    /\ retries = 0
    /\ persisted.exists
    /\ vector_store = NoObj

\* C10, as it holds of the code: after an upload returns success, the saved
\* index and the index in memory hold every chunk added by the uploads that
\* returned success in this process, those in flight together with it
\* included.
C10_NoLostUpdate ==
    (last.op = "upload" /\ last.status = 200) =>
        /\ persisted.exists
        /\ vector_store # NoObj
        /\ ingested \subseteq persisted.entries
        /\ ingested \subseteq heap[vector_store]

\* C10's case: two uploads were suspended together, both returned success,
\* and the chunks of both documents are in the saved index.
C10_Witness ==
    /\ last.op = "upload"
    /\ last.status = 200
    /\ last.pairOk
    /\ ingested = Chunks
    /\ persisted.entries = Chunks

\* C10, as the specification states it (last save wins): when two uploads in
\* flight together have both returned success, the saved index or the index
\* in memory lacks chunks of one.
C10_LostUpdate ==
    (last.op = "upload" /\ last.status = 200 /\ last.pairOk) =>
        \/ ~(ingested \subseteq persisted.entries)
        \/ ~(ingested \subseteq heap[vector_store])

\* C11, as it holds of the code: the part of an upload before its await
\* leaves the index in memory, the saved index and the chain as they were; a
\* query made while uploads are suspended retrieves from the chain's index as
\* it stood and changes neither index; the index in memory, the saved index
\* and the chain's retriever change only in the step that ends an upload
\* with its response, or when the process starts or stops.
C11_QuerySeesNoPartialIngestion ==
    [][/\ last'.op = "upload_begin" =>
            UNCHANGED <<heap, vector_store, conversation_chain, persisted>>
       /\ (last'.op = "query" /\ pending # NoRequests) =>
            /\ conversation_chain.present => last'.seen = Serving
            /\ UNCHANGED <<heap, vector_store, persisted, pending>>
       /\ (\/ heap' # heap
           \/ vector_store' # vector_store
           \/ persisted' # persisted
           \/ conversation_chain'.retriever # conversation_chain.retriever) =>
            last'.op \in {"upload", "startup", "start", "stop"}]_vars

\* C11's case: a query was answered while an upload was suspended; it
\* retrieved from the saved entries through a chain bound to the index.
C11_Witness ==
    /\ last.op = "query"
    /\ last.status = 200
    /\ pending # NoRequests
    /\ persisted.exists
    /\ last.seen # {}
    /\ last.seen = persisted.entries
    /\ conversation_chain.retriever = vector_store

\* C11, as the specification states it: a query answered while an upload is
\* suspended retrieves from an index that is between two saved states: it
\* holds chunks that are not saved, or it is not the one vector_store holds.
C11_MidRebuildObserved ==
    (last.op = "query" /\ last.status = 200 /\ pending # NoRequests) =>
        \/ last.seen # persisted.entries
        \/ conversation_chain.retriever # vector_store

\* C12: after an upload that returned success the conversation has no turns.
C12_IngestionDiscardsHistory ==
    (last.op = "upload" /\ last.status = 200) =>
        Len(conversation_chain.memory) = 0

\* C13: no step changes or removes a file of the document store into which
\* an upload has written its bytes.
C13_StoredDocumentImmutable ==
    [][\A n \in Names :
          (documents[n].exists /\ documents[n].bytes # <<>>) =>
              documents'[n] = documents[n]]_vars

\* C14: whenever the chain exists, its retriever is the index object that
\* vector_store holds.
C14_ChainBoundToCurrentIndex ==
    conversation_chain.present => conversation_chain.retriever = vector_store

\* C15: while the process runs, no step takes the chain away once it exists;
\* and whenever the chain exists, vector_store holds an index.
C15_ReadinessMonotonic ==
    /\ [](conversation_chain.present => vector_store # NoObj)
    /\ [][(conversation_chain.present /\ phase' = "up") =>
            conversation_chain'.present]_vars

\* C15's case: an upload returned success with its re-initialisation failed
\* (the turns of the old chain are still there), and the chain exists.
C15_Witness ==
    /\ last.op = "upload"
    /\ last.status = 200
    /\ Len(conversation_chain.memory) > 0
    /\ conversation_chain.present
    /\ vector_store # NoObj

\* C16: a query, whatever its outcome, leaves the index in memory, the saved
\* index, the document files, and the presence and the retriever of the chain
\* as they were; the turns are as they were unless it was answered, and then
\* exactly its one turn is added at the end.
C16_QueryReadOnly ==
    [][last'.op = "query" =>
          /\ UNCHANGED <<heap, vector_store, persisted, documents>>
          /\ conversation_chain'.present = conversation_chain.present
          /\ conversation_chain'.retriever = conversation_chain.retriever
          /\ last'.status \in {200, 400, 500}
          /\ IF last'.status = 200
                THEN /\ Len(conversation_chain'.memory) =
                           Len(conversation_chain.memory) + 1
                     /\ conversation_chain'.memory =
                           Append(conversation_chain.memory,
                                  <<last'.question, last'.answer>>)
                ELSE conversation_chain'.memory = conversation_chain.memory]_vars

\* C16's case: the call to the chain raised in a query made after an answered
\* one; the one earlier turn and the saved index are still there.
C16_Witness ==
    /\ last.op = "query"
    /\ last.status = 500
    /\ last.steps = <<"generate">>
    /\ Len(conversation_chain.memory) = 1
    /\ last.context = conversation_chain.memory
    /\ persisted.exists
    /\ documents["report.pdf"].exists

====
